---------------------------- MODULE Spec2Model ----------------------------
(***************************************************************************)
(* EFP Wealth: the equity-curve analytics (generate_site_data.generate),   *)
(* the landing page generator and the persistence schema.                  *)
(*                                                                         *)
(* Numbers.  pandas/numpy compute in IEEE doubles; the model computes in   *)
(* exact rationals extended with +inf, -inf and NaN, which is what the     *)
(* doubles approximate.  A number is a record [n, d] in lowest terms with  *)
(* d >= 0: d > 0 is the rational n/d, <<1,0>> is +inf, <<-1,0>> is -inf    *)
(* and <<0,0>> is NaN (numpy's result of x/0 and 0/0).                     *)
(*                                                                         *)
(* Dates are day ordinals (days since 1970-01-01), converted from and to   *)
(* civil dates with the proleptic Gregorian calendar pandas uses.          *)
(*                                                                         *)
(* generate_landing.generate_landing computes the same metrics with the    *)
(* same statements (its lines 57-125); the operators of the first sections *)
(* are those of both files.  The later sections model the tables and the   *)
(* referral codes of models.py, the asset cache of get_chartjs_inline and  *)
(* generate_landing(), each with a specification of its own.               *)
(*                                                                         *)
(* Inputs.  Every column of the input file runs over consecutive rows, and *)
(* every month and year between its first and last row has a row, so no    *)
(* month or year bin of a resample is empty.                               *)
(***************************************************************************)
EXTENDS Integers, Sequences, FiniteSets

----------------------------------------------------------------------------
(* Bounds of the model *)

\* equity values in the input file range over 0..MaxVal (strategy) and
\* 1..MaxVal (benchmark)
MaxVal == 2

----------------------------------------------------------------------------
(* Extended rational arithmetic (numpy float64 semantics, exact) *)

Abs(x) == IF x < 0 THEN -x ELSE x

Sgn(x) == IF x > 0 THEN 1 ELSE IF x < 0 THEN -1 ELSE 0

RECURSIVE Gcd(_, _)
Gcd(a, b) == IF b = 0 THEN a ELSE Gcd(b, a % b)

\* the number n/d, normalised: lowest terms, d >= 0, x/0 = +-inf, 0/0 = NaN
Num(n, d) ==
    IF d = 0 THEN [n |-> Sgn(n), d |-> 0]
    ELSE LET g == Gcd(Abs(n), Abs(d))
             s == Sgn(d)
         IN  [n |-> (s * n) \div g, d |-> (s * d) \div g]

Int2Num(i) == [n |-> i, d |-> 1]

NaN == [n |-> 0, d |-> 0]
Zero == [n |-> 0, d |-> 1]

IsNaN(x) == x.d = 0 /\ x.n = 0
IsInf(x) == x.d = 0 /\ x.n # 0
IsFinite(x) == x.d > 0

NumAdd(a, b) ==
    IF IsNaN(a) \/ IsNaN(b) THEN NaN
    ELSE IF IsInf(a) /\ IsInf(b) THEN (IF a.n = b.n THEN a ELSE NaN)
    ELSE IF IsInf(a) THEN a
    ELSE IF IsInf(b) THEN b
    ELSE Num(a.n * b.d + b.n * a.d, a.d * b.d)

NumNeg(a) == [n |-> -a.n, d |-> a.d]

NumSub(a, b) == NumAdd(a, NumNeg(b))

NumMul(a, b) == Num(a.n * b.n, a.d * b.d)

\* true division: x/0 is +-inf, 0/0 and inf/inf are NaN, x/inf is 0
NumDiv(a, b) ==
    IF IsNaN(a) \/ IsNaN(b) THEN NaN
    ELSE IF b.n = 0 /\ b.d > 0 THEN Num(a.n, 0)
    ELSE Num(a.n * b.d * Sgn(b.n), a.d * Abs(b.n))

NumAbs(a) == [n |-> Abs(a.n), d |-> a.d]

\* a < b and a > b; every comparison with NaN is false
NumLt(a, b) ==
    /\ ~IsNaN(a) /\ ~IsNaN(b)
    /\ IF IsInf(a) \/ IsInf(b)
       THEN (IsInf(a) /\ a.n < 0 /\ b # a) \/ (IsInf(b) /\ b.n > 0 /\ b # a)
       ELSE a.n * b.d < b.n * a.d

NumGt(a, b) == NumLt(b, a)

\* nearest integer to p/q (q > 0), ties to the even neighbour
RoundHalfEven(p, q) ==
    LET f == (2 * p) \div (2 * q)        \* floor(p/q); \div floors
        r == 2 * (p - f * q)             \* twice the remainder
    IN  IF r < q THEN f
        ELSE IF r > q THEN f + 1
        ELSE IF f % 2 = 0 THEN f ELSE f + 1

\* round(x, ndigits) with 10^ndigits = scale; inf and NaN round to themselves
Round(x, scale) ==
    IF ~IsFinite(x) THEN x
    ELSE Num(RoundHalfEven(x.n * scale, x.d), scale)

----------------------------------------------------------------------------
(* Calendar: day ordinals <-> civil dates *)

IsLeap(y) == (y % 4 = 0 /\ y % 100 # 0) \/ y % 400 = 0

DaysInMonth(y, m) ==
    IF m = 2 THEN (IF IsLeap(y) THEN 29 ELSE 28)
    ELSE IF m \in {4, 6, 9, 11} THEN 30 ELSE 31

\* days since 1970-01-01 of the civil date y-m-d
DaysFromCivil(y, m, d) ==
    LET yy  == IF m <= 2 THEN y - 1 ELSE y
        era == yy \div 400
        yoe == yy - era * 400
        mp  == (m + 9) % 12
        doy == (153 * mp + 2) \div 5 + d - 1
        doe == yoe * 365 + yoe \div 4 - yoe \div 100 + doy
    IN  era * 146097 + doe - 719468

\* the civil date [y, m, d] of a day ordinal, in steps: day of era and year
\* of era, day of year, month counted from March, then day, month and year
civil_of_mp(era, yoe, doy, mp) ==
    [y |-> yoe + era * 400 + (IF mp < 10 THEN 0 ELSE 1),
     m |-> IF mp < 10 THEN mp + 3 ELSE mp - 9,
     d |-> doy - (153 * mp + 2) \div 5 + 1]

civil_of_doy(era, yoe, doy) == civil_of_mp(era, yoe, doy, (5 * doy + 2) \div 153)

civil_of_yoe(era, doe, yoe) ==
    civil_of_doy(era, yoe, doe - (365 * yoe + yoe \div 4 - yoe \div 100))

civil_of_doe(era, doe) ==
    civil_of_yoe(era, doe,
                 (doe - doe \div 1460 + doe \div 36524 - doe \div 146096) \div 365)

civil_of_era(zz, era) == civil_of_doe(era, zz - era * 146097)

CivilFromDays(z) == civil_of_era(z + 719468, (z + 719468) \div 146097)

\* Monday = 0 .. Sunday = 6 (1970-01-01 was a Thursday)
Weekday(z) == (z + 3) % 7

month_end(c) == DaysFromCivil(c.y, c.m, DaysInMonth(c.y, c.m))

year_end(c) == DaysFromCivil(c.y, 12, 31)

\* resample bin labels: 'W' is the week ending Sunday, 'ME' the month end,
\* 'YE' the year end; a bin is closed and labelled on its right edge
BinLabel(rule, z) ==
    CASE rule = "W"  -> z + (6 - Weekday(z))
      [] rule = "ME" -> month_end(CivilFromDays(z))
      [] rule = "YE" -> year_end(CivilFromDays(z))

\* the label of the bin that follows the bin labelled z
NextLabel(rule, z) == BinLabel(rule, z + 1)

----------------------------------------------------------------------------
(* pandas Series: a sequence of points [t |-> day ordinal, v |-> number],   *)
(* ordered by t                                                            *)

Point(t, v) == [t |-> t, v |-> v]

\* Series.dropna()
dropna(s) == SelectSeq(s, LAMBDA p : ~IsNaN(p.v))

\* Series.loc[a:b]: label slice, both ends included
loc_slice(s, a, b) == SelectSeq(s, LAMBDA p : a <= p.t /\ p.t <= b)

\* the larger of two numbers as cummax sees them (NaN never wins)
NumMax(a, b) == IF IsNaN(a) THEN b ELSE IF NumGt(b, a) THEN b ELSE a

\* Series.cummax(): the running maximum up to and including each point
RECURSIVE cummax_from(_, _, _)
cummax_from(s, i, peak) ==
    IF i > Len(s) THEN <<>>
    ELSE LET pk == NumMax(peak, s[i].v)
         IN  <<Point(s[i].t, pk)>> \o cummax_from(s, i + 1, pk)

cummax(s) == cummax_from(s, 1, NaN)

\* a drawdown measured against the first value instead of the running peak
drawdown_from_first(equity) ==
    [i \in 1..Len(equity) |->
        Point(equity[i].t, NumDiv(NumSub(equity[i].v, equity[1].v), equity[1].v))]

\* (equity - peak) / peak, element by element
compute_drawdown(equity) ==
    LET peak == cummax(equity)
    IN  [i \in 1..Len(equity) |->
            Point(equity[i].t, NumDiv(NumSub(equity[i].v, peak[i].v), peak[i].v))]

\* Series.min(): NaN is skipped; NaN when nothing is left
RECURSIVE min_from(_, _, _)
min_from(s, i, acc) ==
    IF i > Len(s) THEN acc
    ELSE min_from(s, i + 1,
                  IF IsNaN(s[i].v) THEN acc
                  ELSE IF IsNaN(acc) \/ NumLt(s[i].v, acc) THEN s[i].v ELSE acc)

series_min(s) == min_from(s, 1, NaN)

\* the labels of all bins from the one labelled lo to the one labelled hi
RECURSIVE bin_labels(_, _, _)
bin_labels(rule, lo, hi) ==
    IF lo > hi THEN <<>> ELSE <<lo>> \o bin_labels(rule, NextLabel(rule, lo), hi)

\* last non-NaN value of s among the points of the bin labelled lab
RECURSIVE last_in_bin(_, _, _, _, _)
last_in_bin(rule, s, lab, i, acc) ==
    IF i > Len(s) THEN acc
    ELSE last_in_bin(rule, s, lab, i + 1,
                     IF BinLabel(rule, s[i].t) = lab /\ ~IsNaN(s[i].v)
                     THEN s[i].v ELSE acc)

\* Series.resample(rule).last(): one point per bin between the first and the
\* last observation, NaN for a bin that holds no observation
resample_last(rule, s) ==
    IF Len(s) = 0 THEN <<>>
    ELSE LET labs == bin_labels(rule, BinLabel(rule, s[1].t), BinLabel(rule, s[Len(s)].t))
         IN  [k \in 1..Len(labs) |->
                 Point(labs[k], last_in_bin(rule, s, labs[k], 1, NaN))]

\* forward fill (pct_change pads NaN before it divides)
RECURSIVE ffill_from(_, _, _)
ffill_from(s, i, prev) ==
    IF i > Len(s) THEN <<>>
    ELSE LET v == IF IsNaN(s[i].v) THEN prev ELSE s[i].v
         IN  <<Point(s[i].t, v)>> \o ffill_from(s, i + 1, v)

\* Series.pct_change(): data / data.shift(1) - 1, the first point is NaN
pct_change(s) ==
    LET data == ffill_from(s, 1, NaN)
    IN  [i \in 1..Len(s) |->
            Point(s[i].t,
                  IF i = 1 THEN NaN
                  ELSE NumSub(NumDiv(data[i].v, data[i - 1].v), Int2Num(1)))]

RECURSIVE sum_from(_, _)
sum_from(s, i) == IF i > Len(s) THEN Zero ELSE NumAdd(s[i].v, sum_from(s, i + 1))

\* Series.mean(): NaN for an empty series
series_mean(s) == NumDiv(sum_from(s, 1), Int2Num(Len(s)))

\* sum over i of (x[i] - mx) * (y[i] - my)
RECURSIVE cross_sum(_, _, _, _, _)
cross_sum(x, y, mx, my, i) ==
    IF i > Len(x) THEN Zero
    ELSE NumAdd(NumMul(NumSub(x[i].v, mx), NumSub(y[i].v, my)),
                cross_sum(x, y, mx, my, i + 1))

\* sample covariance (ddof = 1) of two series of equal length; NaN when
\* there are fewer than two observations
covariance(x, y) ==
    LET mx == series_mean(x)
        my == series_mean(y)
    IN  IF Len(x) = 0 THEN NaN
        ELSE NumMul(cross_sum(x, y, mx, my, 1), NumDiv(Int2Num(1), Int2Num(Len(x) - 1)))

\* Series.std() squared (ddof = 1)
series_var(s) == covariance(s, s)

\* np.cov(x, y): the 2x2 matrix, rows and columns 0 and 1
np_cov(x, y) ==
    [i \in {0, 1} |-> [j \in {0, 1} |->
        covariance(IF i = 0 THEN x ELSE y, IF j = 0 THEN x ELSE y)]]

\* index.intersection as a set of labels, and Series.loc[labels]
index_of(s) == {s[i].t : i \in 1..Len(s)}

loc_labels(s, labels) == SelectSeq(s, LAMBDA p : p.t \in labels)

\* a win test that also counts a return of exactly 0
frac_nonnegative(s) ==
    NumDiv(Int2Num(Len(SelectSeq(s, LAMBDA p : ~NumLt(p.v, Zero) /\ ~IsNaN(p.v)))),
           Int2Num(Len(s)))

\* mean of the boolean series (s > 0); NaN for an empty series
frac_positive(s) ==
    NumDiv(Int2Num(Len(SelectSeq(s, LAMBDA p : NumGt(p.v, Zero)))), Int2Num(Len(s)))

\* annual returns that keep the first year, with a return of 0
annual_returns_keep_first(equity) ==
    LET annual == pct_change(resample_last("YE", equity))
    IN  [i \in 1..Len(annual) |->
            [year |-> CivilFromDays(annual[i].t).y,
             pct  |-> IF IsNaN(annual[i].v) THEN Zero
                      ELSE Round(NumMul(annual[i].v, Int2Num(100)), 10)]]

\* equity.resample('YE').last().pct_change().dropna(), as {year: round(v*100, 1)}
compute_annual_returns(equity) ==
    LET annual == dropna(pct_change(resample_last("YE", equity)))
    IN  [i \in 1..Len(annual) |->
            [year |-> CivilFromDays(annual[i].t).y,
             pct  |-> Round(NumMul(annual[i].v, Int2Num(100)), 10)]]

\* equity.resample('ME').last().pct_change().dropna(), as {'%Y-%m': round(v*100, 2)}
compute_monthly_returns(equity) ==
    LET monthly == dropna(pct_change(resample_last("ME", equity)))
    IN  [i \in 1..Len(monthly) |->
            [year  |-> CivilFromDays(monthly[i].t).y,
             month |-> CivilFromDays(monthly[i].t).m,
             pct   |-> Round(NumMul(monthly[i].v, Int2Num(100)), 100)]]

----------------------------------------------------------------------------
(* Values the model keeps symbolic: a power with a fractional exponent and *)
(* a square root have no rational value                                    *)

\* an exponent that counts a year as 365 days
inverse_years_365(days) == Num(365, days)

\* 1 / years with years = days / 365.25: the exponent 365.25 / days, exact
inverse_years(days) == Num(1461, 4 * days)

\* how base ** exp compares to base itself, as -1, 0 or 1 (base > 0 finite,
\* exp > 0 finite): a power of 1 is 1, base ** 1 is base, and x ** e grows
\* with e when x > 1 and falls with e when x < 1
power_vs_base(c) ==
    IF c.base = Int2Num(1) \/ c.exp = Int2Num(1) THEN 0
    ELSE IF NumGt(c.base, Int2Num(1)) = NumGt(c.exp, Int2Num(1)) THEN 1
    ELSE -1

\* (1 + total_ret) ** (1 / years) - 1 with years = days / 365.25:
\* base ** (365.25 / days) - 1
annualized(base, days) == [base |-> base, days |-> days, exp |-> inverse_years(days)]

\* what the power evaluates to in float64: NaN for a NaN or negative base,
\* inf for an infinite base, a finite number otherwise
cagr_class(c) ==
    IF IsNaN(c.base) THEN "nan"
    ELSE IF IsInf(c.base) THEN "inf"
    ELSE IF c.base.n < 0 THEN "nan"
    ELSE "finite"

\* two annualized returns are the same number: same base and exponent, or
\* both bases 1 (any power of 1 is 1); bases and day counts that both differ
\* are never compared in this model
same_annualized(a, b) ==
    \/ a.base = b.base /\ a.days = b.days
    \/ a.base = Int2Num(1) /\ b.base = Int2Num(1)

\* cagr - nifty_cagr
alpha_class(a) ==
    LET s == cagr_class(a.cagr)
        b == cagr_class(a.nifty_cagr)
    IN  IF s = "nan" \/ b = "nan" THEN "nan"
        ELSE IF s = "inf" /\ b = "inf" THEN "nan"
        ELSE IF s = "inf" \/ b = "inf" THEN "inf"
        ELSE "finite"

\* rets.mean() / rets.std() * np.sqrt(252) if rets.std() > 0 else 0
sharpe_ratio(rets) ==
    LET var == series_var(rets)
    IN  IF NumGt(var, Zero)
        THEN [k |-> "ratio", mean |-> series_mean(rets), var |-> var]
        ELSE [k |-> "zero", mean |-> Zero, var |-> Zero]

\* cagr / abs(max_dd) if max_dd != 0 else 0   (NaN != 0 is true)
calmar_ratio(cagr, max_dd) ==
    IF max_dd # Zero
    THEN [k |-> "ratio", cagr |-> cagr, max_dd |-> NumAbs(max_dd)]
    ELSE [k |-> "zero", cagr |-> cagr, max_dd |-> Zero]

calmar_class(c) ==
    IF c.k = "zero" THEN "finite"
    ELSE IF IsNaN(c.max_dd) \/ cagr_class(c.cagr) = "nan" THEN "nan"
    ELSE cagr_class(c.cagr)

\* a beta that divides by the strategy's variance instead of the benchmark's
beta_over_strategy(cov) ==
    IF NumGt(cov[0][0], Zero) THEN NumDiv(cov[0][1], cov[0][0]) ELSE Zero

\* cov[0, 1] / cov[1, 1] if cov[1, 1] > 0 else 0
beta_of(cov) == IF NumGt(cov[1][1], Zero) THEN NumDiv(cov[0][1], cov[1][1]) ELSE Zero

----------------------------------------------------------------------------
(* The input file all_equity_curves.csv *)

\* the dates of the rows: two days of one week, then two month ends, the
\* last one in the next year
Calendar ==
    << DaysFromCivil(2021, 11, 29), DaysFromCivil(2021, 11, 30),
       DaysFromCivil(2021, 12, 31), DaysFromCivil(2022, 1, 31) >>

\* a column: a value or NaN on every row, the values on consecutive rows
\* (a curve starts, runs and ends; it has no holes)
Columns(rows, vals) ==
    { c \in [1..rows -> vals \cup {NaN}] :
        \A i, j, k \in 1..rows :
            (i < j /\ j < k /\ ~IsNaN(c[i]) /\ ~IsNaN(c[k])) => ~IsNaN(c[j]) }

StrategyValues == {Int2Num(v) : v \in 0..MaxVal}
BenchmarkValues == {Int2Num(v) : v \in 1..MaxVal}

CsvFiles ==
    { [WalkForward |-> w, NIFTY_100pct |-> b] :
        w \in Columns(Len(Calendar), StrategyValues),
        b \in Columns(Len(Calendar), BenchmarkValues) }

\* curves[name]: the column as a Series over the row dates
column(curves, name) ==
    [i \in 1..Len(Calendar) |-> Point(Calendar[i], curves[name][i])]

----------------------------------------------------------------------------
(* State *)

VARIABLES
    csv,        \* the content of all_equity_curves.csv
    pc,         \* where generate() is
    exc,        \* the exception that ended the run, "" if none
    wf,         \* the strategy series
    nifty,      \* the benchmark series, cut to the strategy's dates
    core,       \* the core metrics
    monthly,    \* the monthly series, beta and win rate
    hero,       \* the hero record
    series,     \* equity curve, annual and monthly returns, drawdown, benchmark
    site_file,  \* data/site_metrics.json
    users,      \* the rows of table users
    capital_records,    \* the rows of table capital_records
    db_last,    \* the last statement sent to the database and its outcome
    issued,     \* the referral codes generate_referral_code returned, in order
    libs,       \* the files of LIBS_DIR: the cached charting assets
    calls,      \* the calls of get_chartjs_inline so far: downloads and outcome
    landing,    \* where generate_landing() is, and what it has computed
    landing_file    \* templates/landing.html

\* the state of generate() (generate_site_data.py)
analytics == <<csv, pc, exc, wf, nifty, core, monthly, hero, series, site_file>>

\* the state of the persistence layer (models.py)
persistence == <<users, capital_records, db_last, issued>>

\* the state of the landing page generator (generate_landing.py)
rendering == <<libs, calls, landing, landing_file>>

vars == <<analytics, persistence, rendering>>

\* db = SQLAlchemy(): empty tables, nothing sent yet, no code generated yet
InitPersistence ==
    /\ users = {}
    /\ capital_records = {}
    /\ db_last = [op |-> "none"]
    /\ issued = <<>>

\* no asset cached, generate_landing() not started, no page written
InitRendering ==
    /\ libs = <<"absent", "absent">>
    /\ calls = <<>>
    /\ landing = [pc |-> "idle"]
    /\ landing_file = [exists |-> FALSE]

Unset == [set |-> FALSE]

Init ==
    /\ csv \in CsvFiles
    /\ pc = "read"
    /\ exc = ""
    /\ wf = <<>>
    /\ nifty = <<>>
    /\ core = Unset
    /\ monthly = Unset
    /\ hero = Unset
    /\ series = Unset
    /\ site_file = [exists |-> FALSE]
    /\ InitPersistence
    /\ InitRendering

\* an uncaught exception ends the run
Raise(e) ==
    /\ pc' = "raised"
    /\ exc' = e

----------------------------------------------------------------------------
(* generate() *)

\* lines 37-41: read the file, take the two columns
ReadCurves ==
    /\ pc = "read"
    /\ LET w == dropna(column(csv, "WalkForward"))
       IN  IF Len(w) = 0
           THEN \* wf.index[0] of an empty index
                /\ Raise("IndexError")
                /\ UNCHANGED <<wf, nifty>>
           ELSE /\ wf' = w
                /\ nifty' = dropna(loc_slice(column(csv, "NIFTY_100pct"),
                                             w[1].t, w[Len(w)].t))
                /\ pc' = "core"
                /\ exc' = ""
    /\ UNCHANGED <<csv, core, monthly, hero, series, site_file>>
    /\ UNCHANGED <<persistence, rendering>>

\* lines 44-57: the core metrics
core_metrics(w, b) ==
    LET days     == w[Len(w)].t - w[1].t
        multiple == NumDiv(w[Len(w)].v, w[1].v)
        cagr     == annualized(multiple, days)
        dd       == compute_drawdown(w)
        max_dd   == series_min(dd)
        rets     == dropna(pct_change(w))
        ncagr    == annualized(NumDiv(b[Len(b)].v, b[1].v), days)
    IN  [set |-> TRUE, days |-> days, cagr |-> cagr, dd |-> dd,
         max_dd |-> max_dd, sharpe |-> sharpe_ratio(rets),
         calmar |-> calmar_ratio(cagr, max_dd), multiple |-> multiple,
         nifty_cagr |-> ncagr,
         alpha |-> [cagr |-> cagr, nifty_cagr |-> ncagr]]

CoreMetrics ==
    /\ pc = "core"
    /\ IF wf[Len(wf)].t - wf[1].t = 0
       THEN \* 1 / years with years = 0.0
            /\ Raise("ZeroDivisionError")
            /\ UNCHANGED core
       ELSE IF Len(nifty) = 0
       THEN \* nifty.iloc[-1] of an empty series
            /\ Raise("IndexError")
            /\ UNCHANGED core
       ELSE /\ core' = core_metrics(wf, nifty)
            /\ pc' = "monthly"
            /\ exc' = ""
    /\ UNCHANGED <<csv, wf, nifty, monthly, hero, series, site_file>>
    /\ UNCHANGED <<persistence, rendering>>

\* lines 59-65: beta and win rate over the common months
monthly_metrics(w, b) ==
    LET monthly_wf    == dropna(pct_change(resample_last("ME", w)))
        monthly_nifty == dropna(pct_change(resample_last("ME", b)))
        common_m      == index_of(monthly_wf) \cap index_of(monthly_nifty)
        cov           == np_cov(loc_labels(monthly_wf, common_m),
                                loc_labels(monthly_nifty, common_m))
    IN  [set |-> TRUE, monthly_wf |-> monthly_wf, monthly_nifty |-> monthly_nifty,
         common_m |-> common_m, beta |-> beta_of(cov),
         win_rate |-> Round(NumMul(frac_positive(loc_labels(monthly_wf, common_m)),
                                   Int2Num(100)), 1)]

BetaWinRate ==
    /\ pc = "monthly"
    /\ monthly' = monthly_metrics(wf, nifty)
    /\ pc' = "hero"
    /\ UNCHANGED <<csv, exc, wf, nifty, core, hero, series, site_file>>
    /\ UNCHANGED <<persistence, rendering>>

\* d.strftime('%Y-%m-%d'), d.strftime('%Y-%m') and d.strftime('%b %Y'): the
\* civil date, and its year and month
strftime_ymd(z) == CivilFromDays(z)

strftime_ym(z) == [y |-> CivilFromDays(z).y, m |-> CivilFromDays(z).m]

\* lines 67-81: the hero record; cagr, sharpe, calmar and alpha stay symbolic
hero_record(c, m, w) ==
    [set |-> TRUE,
     cagr |-> c.cagr,
     max_dd |-> Round(NumMul(c.max_dd, Int2Num(100)), 10),
     sharpe |-> c.sharpe,
     calmar |-> c.calmar,
     alpha |-> c.alpha,
     beta |-> Round(m.beta, 100),
     multiple |-> Round(c.multiple, 10),
     win_rate |-> m.win_rate.n,
     period_start |-> strftime_ym(w[1].t),
     period_end |-> strftime_ym(w[Len(w)].t),
     years |-> Round(Num(4 * c.days, 1461), 10)]

BuildHero ==
    /\ pc = "hero"
    /\ IF IsNaN(monthly.win_rate)
       THEN \* int(nan)
            /\ Raise("ValueError")
            /\ UNCHANGED hero
       ELSE /\ hero' = hero_record(core, monthly, wf)
            /\ pc' = "series"
            /\ exc' = ""
    /\ UNCHANGED <<csv, wf, nifty, core, monthly, series, site_file>>
    /\ UNCHANGED <<persistence, rendering>>

\* a normalisation that forgets to divide by the first value
scale_only(equity) ==
    [i \in 1..Len(equity) |-> Point(equity[i].t, NumMul(equity[i].v, Int2Num(100)))]

\* equity / equity.iloc[0] * 100
normalize(equity) ==
    [i \in 1..Len(equity) |->
        Point(equity[i].t, NumMul(NumDiv(equity[i].v, equity[1].v), Int2Num(100)))]

\* lines 84-98: {'dates': [...], 'values': [...]} of the weekly normalised curve
weekly_curve(equity) ==
    LET weekly == dropna(resample_last("W", normalize(equity)))
    IN  [dates  |-> [i \in 1..Len(weekly) |-> strftime_ymd(weekly[i].t)],
         values |-> [i \in 1..Len(weekly) |-> Round(weekly[i].v, 10)]]

\* lines 115-119: the weekly drawdown in percent
weekly_drawdown(dd) ==
    LET weekly == dropna(resample_last("W", dd))
    IN  [dates  |-> [i \in 1..Len(weekly) |-> strftime_ymd(weekly[i].t)],
         values |-> [i \in 1..Len(weekly) |->
                        Round(NumMul(weekly[i].v, Int2Num(100)), 10)]]

\* lines 122-133: the benchmark's own metrics
benchmark_record(b, ncagr) ==
    [cagr |-> ncagr,
     sharpe |-> sharpe_ratio(dropna(pct_change(b))),
     max_dd |-> Round(NumMul(series_min(compute_drawdown(b)), Int2Num(100)), 10),
     multiple |-> Round(NumDiv(b[Len(b)].v, b[1].v), 10)]

\* lines 83-133
series_record(w, b, c) ==
    LET wf_annual    == compute_annual_returns(w)
        nifty_annual == compute_annual_returns(b)
    IN  [set |-> TRUE,
         equity_curve |-> [wf |-> weekly_curve(w), nifty |-> weekly_curve(b)],
         annual_returns |->
            [years |-> {wf_annual[i].year : i \in 1..Len(wf_annual)}
                       \cup {nifty_annual[i].year : i \in 1..Len(nifty_annual)},
             wf |-> wf_annual, nifty |-> nifty_annual],
         monthly_returns |-> compute_monthly_returns(w),
         drawdown |-> weekly_drawdown(c.dd),
         benchmark |-> benchmark_record(b, c.nifty_cagr)]

BuildSeries ==
    /\ pc = "series"
    /\ series' = series_record(wf, nifty, core)
    /\ pc' = "write"
    /\ UNCHANGED <<csv, exc, wf, nifty, core, monthly, hero, site_file>>
    /\ UNCHANGED <<persistence, rendering>>

\* the values of datetime.now() (in the unit the output shows): two moments
Clock == {1, 2}

\* lines 135-151: assemble site_data, generated_at included, and write
\* site_metrics.json
WriteOutput ==
    /\ pc = "write"
    /\ \E now \in Clock :
            site_file' = [exists |-> TRUE, hero |-> hero, series |-> series,
                          generated_at |-> now]
    /\ pc' = "done"
    /\ UNCHANGED <<csv, exc, wf, nifty, core, monthly, hero, series>>
    /\ UNCHANGED <<persistence, rendering>>

Next ==
    \/ ReadCurves
    \/ CoreMetrics
    \/ BetaWinRate
    \/ BuildHero
    \/ BuildSeries
    \/ WriteOutput

Spec == Init /\ [][Next]_vars

----------------------------------------------------------------------------
(* compute_annual_returns on its own, over three calendar years *)

\* a mid-year date and the year end of 2019, the year end of 2020, a mid-year
\* date and the year end of 2021
AnnualCalendar ==
    << DaysFromCivil(2019, 6, 28), DaysFromCivil(2019, 12, 31),
       DaysFromCivil(2020, 12, 31),
       DaysFromCivil(2021, 6, 30), DaysFromCivil(2021, 12, 31) >>

AnnualValues == {Int2Num(90), Int2Num(100), Int2Num(120)}

AnnualSeries ==
    { dropna([i \in 1..Len(AnnualCalendar) |-> Point(AnnualCalendar[i], c[i])]) :
        c \in Columns(Len(AnnualCalendar), AnnualValues) }

InitAnnual ==
    /\ csv = [WalkForward |-> <<>>, NIFTY_100pct |-> <<>>]
    /\ pc = "annual"
    /\ exc = ""
    /\ wf \in AnnualSeries
    /\ nifty = <<>>
    /\ core = Unset
    /\ monthly = Unset
    /\ hero = Unset
    /\ series = Unset
    /\ site_file = [exists |-> FALSE]
    /\ InitPersistence
    /\ InitRendering

\* wf_annual = compute_annual_returns(wf)
AnnualReturns ==
    /\ pc = "annual"
    /\ series' = [set |-> TRUE, wf_annual |-> compute_annual_returns(wf)]
    /\ pc' = "annual_done"
    /\ UNCHANGED <<csv, exc, wf, nifty, core, monthly, hero, site_file>>
    /\ UNCHANGED <<persistence, rendering>>

NextAnnual == AnnualReturns

SpecAnnual == InitAnnual /\ [][NextAnnual]_vars

----------------------------------------------------------------------------
(* The core metrics on their own, over periods of whole calendar years *)

\* three consecutive year ends: 366 days apart (2020 is a leap year), then
\* 365 days apart
CagrCalendar ==
    << DaysFromCivil(2019, 12, 31), DaysFromCivil(2020, 12, 31),
       DaysFromCivil(2021, 12, 31) >>

CagrValues == {Int2Num(1), Int2Num(2), Int2Num(4)}

CagrSeries ==
    { dropna([i \in 1..Len(CagrCalendar) |-> Point(CagrCalendar[i], c[i])]) :
        c \in Columns(Len(CagrCalendar), CagrValues) }

\* the state after lines 40-41: a strategy series and the benchmark cut to
\* the strategy's dates
InitCagr ==
    /\ csv = [WalkForward |-> <<>>, NIFTY_100pct |-> <<>>]
    /\ pc = "core"
    /\ exc = ""
    /\ wf \in CagrSeries \ {<<>>}
    /\ nifty \in {dropna(loc_slice(b, wf[1].t, wf[Len(wf)].t)) : b \in CagrSeries}
    /\ core = Unset
    /\ monthly = Unset
    /\ hero = Unset
    /\ series = Unset
    /\ site_file = [exists |-> FALSE]
    /\ InitPersistence
    /\ InitRendering

NextCagr == CoreMetrics

SpecCagr == InitCagr /\ [][NextCagr]_vars

----------------------------------------------------------------------------
(* The monthly metrics on their own, over a file with no row in one month *)

\* month ends of October and November 2021 and of January and February
\* 2022: no row in December 2021
GapCalendar ==
    << DaysFromCivil(2021, 10, 29), DaysFromCivil(2021, 11, 30),
       DaysFromCivil(2022, 1, 31), DaysFromCivil(2022, 2, 28) >>

GapValues == {Int2Num(1), Int2Num(2)}

GapSeries ==
    { dropna([i \in 1..Len(GapCalendar) |-> Point(GapCalendar[i], c[i])]) :
        c \in Columns(Len(GapCalendar), GapValues) }

\* the state after lines 40-41
InitGap ==
    /\ csv = [WalkForward |-> <<>>, NIFTY_100pct |-> <<>>]
    /\ pc = "monthly"
    /\ exc = ""
    /\ wf \in GapSeries \ {<<>>}
    /\ nifty \in {dropna(loc_slice(b, wf[1].t, wf[Len(wf)].t)) : b \in GapSeries}
    /\ core = Unset
    /\ monthly = Unset
    /\ hero = Unset
    /\ series = Unset
    /\ site_file = [exists |-> FALSE]
    /\ InitPersistence
    /\ InitRendering

NextGap == BetaWinRate

SpecGap == InitGap /\ [][NextGap]_vars

----------------------------------------------------------------------------
(* models.py: the tables users and capital_records and their constraints *)

\* rows per table
MaxRows == 2

\* generate() is not running: no input read, nothing computed or written
InitIdle ==
    /\ csv = [WalkForward |-> <<>>, NIFTY_100pct |-> <<>>]
    /\ pc = "idle"
    /\ exc = ""
    /\ wf = <<>>
    /\ nifty = <<>>
    /\ core = Unset
    /\ monthly = Unset
    /\ hero = Unset
    /\ series = Unset
    /\ site_file = [exists |-> FALSE]

\* SQL NULL; a string is a sequence of characters, and no referral code is
\* the empty string
NULL == <<>>

\* 'EFP-' + suffix
efp_code(suffix) == <<"E", "F", "P", "-">> \o suffix

\* values the callers store
Emails == {<<"a">>, <<"b">>}
StoredCodes == {efp_code(<<"A">>), efp_code(<<"B">>)}
UserIds == 1..MaxRows
Dates == {DaysFromCivil(2022, 1, 31), DaysFromCivil(2022, 2, 28)}

\* id = db.Column(db.Integer, primary_key=True): the next autoincrement id
\* (rows are never deleted here)
next_id(rows) == Cardinality(rows) + 1

\* nullable=False
not_null(rows, col) == \A r \in rows : r[col] # NULL

\* unique=True on a column: no two rows with the same non-NULL value (SQL
\* never takes two NULLs for equal)
unique_column(rows, col) ==
    \A r1, r2 \in rows :
        (r1.id # r2.id /\ r1[col] # NULL /\ r2[col] # NULL) => r1[col] # r2[col]

\* class User: email unique and not NULL, referral_code unique and nullable
users_constraints(rows) ==
    /\ not_null(rows, "email")
    /\ unique_column(rows, "email")
    /\ unique_column(rows, "referral_code")

\* a constraint that also lists the primary key among its columns: no two
\* rows ever agree on it
uq_user_date_id(rows) ==
    \A r1, r2 \in rows :
        r1.id # r2.id => <<r1.user_id, r1.date, r1.id>> # <<r2.user_id, r2.date, r2.id>>

\* db.UniqueConstraint('user_id', 'date', name='uq_user_date')
uq_user_date(rows) ==
    \A r1, r2 \in rows :
        r1.id # r2.id => <<r1.user_id, r1.date>> # <<r2.user_id, r2.date>>

\* class CapitalRecord: (user_id, date) unique (the callers here always give
\* the columns that are not nullable)
capital_records_constraints(rows) == uq_user_date(rows)

\* db.session.add(User(...)); db.session.commit()
InsertUser(email, code) ==
    /\ Cardinality(users) < MaxRows
    /\ LET row == [id |-> next_id(users), email |-> email, referral_code |-> code]
           ok  == users_constraints(users \cup {row})
       IN  /\ users' = IF ok THEN users \cup {row} ELSE users
           /\ db_last' = [op |-> "insert_user", row |-> row,
                          exc |-> IF ok THEN "" ELSE "IntegrityError"]
    /\ UNCHANGED <<capital_records, issued>>
    /\ UNCHANGED <<analytics, rendering>>

\* user.email = ...; user.referral_code = ...; db.session.commit()
UpdateUser(id, email, code) ==
    /\ \E r \in users :
        /\ r.id = id
        /\ LET row == [r EXCEPT !.email = email, !.referral_code = code]
               ok  == users_constraints((users \ {r}) \cup {row})
           IN  /\ users' = IF ok THEN (users \ {r}) \cup {row} ELSE users
               /\ db_last' = [op |-> "update_user", row |-> row,
                              exc |-> IF ok THEN "" ELSE "IntegrityError"]
    /\ UNCHANGED <<capital_records, issued>>
    /\ UNCHANGED <<analytics, rendering>>

\* db.session.add(CapitalRecord(...)); db.session.commit()
InsertCapitalRecord(user_id, date) ==
    /\ Cardinality(capital_records) < MaxRows
    /\ LET row == [id |-> next_id(capital_records), user_id |-> user_id, date |-> date]
           ok  == capital_records_constraints(capital_records \cup {row})
       IN  /\ capital_records' = IF ok THEN capital_records \cup {row}
                                 ELSE capital_records
           /\ db_last' = [op |-> "insert_capital_record", row |-> row,
                          exc |-> IF ok THEN "" ELSE "IntegrityError"]
    /\ UNCHANGED <<users, issued>>
    /\ UNCHANGED <<analytics, rendering>>

\* record.user_id = ...; record.date = ...; db.session.commit()
UpdateCapitalRecord(id, user_id, date) ==
    /\ \E r \in capital_records :
        /\ r.id = id
        /\ LET row == [r EXCEPT !.user_id = user_id, !.date = date]
               ok  == capital_records_constraints((capital_records \ {r}) \cup {row})
           IN  /\ capital_records' = IF ok THEN (capital_records \ {r}) \cup {row}
                                     ELSE capital_records
               /\ db_last' = [op |-> "update_capital_record", row |-> row,
                              exc |-> IF ok THEN "" ELSE "IntegrityError"]
    /\ UNCHANGED <<users, issued>>
    /\ UNCHANGED <<analytics, rendering>>

InitStore ==
    /\ InitIdle
    /\ InitPersistence
    /\ InitRendering

NextStore ==
    \/ \E email \in Emails \cup {NULL}, code \in StoredCodes \cup {NULL} :
            InsertUser(email, code)
    \/ \E id \in UserIds, email \in Emails \cup {NULL}, code \in StoredCodes \cup {NULL} :
            UpdateUser(id, email, code)
    \/ \E user_id \in UserIds, date \in Dates : InsertCapitalRecord(user_id, date)
    \/ \E id \in 1..MaxRows, user_id \in UserIds, date \in Dates :
            UpdateCapitalRecord(id, user_id, date)

SpecStore == InitStore /\ [][NextStore]_vars

----------------------------------------------------------------------------
(* models.py: generate_referral_code *)

\* the largest length asked for, and the number of calls
MaxLength == 1
MaxCodes == 2

\* string.ascii_uppercase + string.digits
chars ==
    << "A", "B", "C", "D", "E", "F", "G", "H", "I", "J", "K", "L", "M",
       "N", "O", "P", "Q", "R", "S", "T", "U", "V", "W", "X", "Y", "Z",
       "0", "1", "2", "3", "4", "5", "6", "7", "8", "9" >>

\* ''.join(secrets.choice(chars) for _ in range(length)): each character is
\* an independent random choice, so any string of that length can come out
random_suffixes(length) ==
    { [i \in 1..length |-> chars[pick[i]]] : pick \in [1..length -> 1..Len(chars)] }

\* generate_referral_code(length): returns 'EFP-' + a random suffix; it reads
\* neither the codes returned before nor the table users
GenerateReferralCode(length) ==
    /\ Len(issued) < MaxCodes
    /\ \E suffix \in random_suffixes(length) :
            issued' = Append(issued, [length |-> length, code |-> efp_code(suffix)])
    /\ UNCHANGED <<users, capital_records, db_last>>
    /\ UNCHANGED <<analytics, rendering>>

InitCodes ==
    /\ InitIdle
    /\ InitPersistence
    /\ InitRendering

\* codes are generated, and users are stored with a generated code
NextCodes ==
    \/ \E length \in 1..MaxLength : GenerateReferralCode(length)
    \/ \E email \in Emails, i \in 1..Len(issued) : InsertUser(email, issued[i].code)

SpecCodes == InitCodes /\ [][NextCodes]_vars

----------------------------------------------------------------------------
(* generate_landing.py: get_chartjs_inline and the cache in LIBS_DIR *)

\* the number of calls of get_chartjs_inline
MaxCalls == 4

\* the file names of CHARTJS_URLS, in order; libs[i] is the file of the i-th
\* asset: "absent", or its text
CHARTJS_URLS == <<"chart.umd.min.js", "chartjs-adapter-date-fns.bundle.min.js">>

\* what the network does with one download: the text the CDN serves, and
\* whether the transfer completes ("ok"), fails before the first byte
\* ("refused": urlopen raises, the file is not created) or breaks midway
\* ("broken": urlretrieve has opened the file for writing, wrote a part of
\* the text and raises; it does not remove the file)
Served == {"v1", "v2"}
Outcomes == {"ok", "refused", "broken"}
Network == [1..Len(CHARTJS_URLS) -> [served : Served, outcome : Outcomes]]

\* urllib.request.urlretrieve(url, cached): the file it leaves, and the
\* exception it raises ("" if none)
urlretrieve(n) ==
    [file |-> IF n.outcome = "ok" THEN n.served
              ELSE IF n.outcome = "broken" THEN "truncated"
              ELSE "absent",
     exc  |-> IF n.outcome = "ok" THEN "" ELSE "URLError"]

\* lines 31-35, the loop body for the i-th asset; an exception raised by an
\* earlier iteration has ended the call
fetch_asset(st, i, net) ==
    IF st.exc # "" THEN st
    ELSE IF st.libs[i] = "absent"
    THEN LET r == urlretrieve(net[i])
         IN  [libs      |-> [st.libs EXCEPT ![i] = r.file],
              downloads |-> st.downloads \cup {i},
              exc       |-> r.exc,
              sources   |-> IF r.exc = "" THEN Append(st.sources, r.file)
                            ELSE st.sources]
    ELSE [st EXCEPT !.sources = Append(@, st.libs[i])]

\* lines 27-36: the cache it leaves, the assets it downloaded, the exception
\* it raised and the sources it returns
get_chartjs_inline(cache, net) ==
    fetch_asset(
        fetch_asset([libs |-> cache, downloads |-> {}, exc |-> "", sources |-> <<>>],
                    1, net),
        2, net)

\* one call of get_chartjs_inline()
GetChartjsInline(net) ==
    /\ Len(calls) < MaxCalls
    /\ LET r == get_chartjs_inline(libs, net)
       IN  /\ libs' = r.libs
           /\ calls' = Append(calls, r)
    /\ UNCHANGED <<landing, landing_file>>
    /\ UNCHANGED <<analytics, persistence>>

InitCache ==
    /\ InitIdle
    /\ InitPersistence
    /\ InitRendering

NextCache == \E net \in Network : GetChartjsInline(net)

SpecCache == InitCache /\ [][NextCache]_vars

----------------------------------------------------------------------------
(* generate_landing.py: generate_landing() *)

\* an uncaught exception ends generate_landing()
LandingRaise(e) == landing' = [pc |-> "raised", exc |-> e]

\* line 52: chartjs_src, adapter_src = get_chartjs_inline()
LandingFetch(net) ==
    /\ landing.pc = "start"
    /\ LET r == get_chartjs_inline(libs, net)
       IN  /\ libs' = r.libs
           /\ calls' = Append(calls, r)
           /\ IF r.exc # ""
              THEN LandingRaise(r.exc)
              ELSE landing' = [pc |-> "analytics", chartjs_src |-> r.sources[1],
                               adapter_src |-> r.sources[2]]
    /\ UNCHANGED landing_file
    /\ UNCHANGED <<analytics, persistence>>

\* lines 84-94: the hero record of the page; cagr, sharpe, calmar and alpha
\* stay symbolic
landing_hero(c, m, w) ==
    [cagr |-> c.cagr,
     max_dd |-> Round(NumMul(c.max_dd, Int2Num(100)), 10),
     sharpe |-> c.sharpe,
     calmar |-> c.calmar,
     alpha |-> c.alpha,
     beta |-> Round(m.beta, 100),
     multiple |-> Round(c.multiple, 10),
     period |-> <<strftime_ym(w[1].t), strftime_ym(w[Len(w)].t)>>,
     years |-> Round(Num(4 * c.days, 1461), 10)]

\* lines 96-111
landing_chart_data(w, b) == [wf |-> weekly_curve(w), nifty |-> weekly_curve(b)]

\* lines 113-122
landing_annual_data(w, b) ==
    LET wf_annual    == compute_annual_returns(w)
        nifty_annual == compute_annual_returns(b)
    IN  [years |-> {wf_annual[i].year : i \in 1..Len(wf_annual)}
                   \cup {nifty_annual[i].year : i \in 1..Len(nifty_annual)},
         wf |-> wf_annual, nifty |-> nifty_annual]

\* lines 60-125 on the series w and b: what build_landing_html is given;
\* win_rate stays a float, NaN included
landing_data(w, b) ==
    LET m == monthly_metrics(w, b)
    IN  [hero |-> landing_hero(core_metrics(w, b), m, w),
         chart_data |-> landing_chart_data(w, b),
         annual_data |-> landing_annual_data(w, b),
         win_rate |-> m.win_rate]

\* lines 54-125: read the file and compute the metrics
LandingAnalytics ==
    /\ landing.pc = "analytics"
    /\ LET w == dropna(column(csv, "WalkForward"))
       IN  IF Len(w) = 0
           THEN \* wf.index[0] of an empty index
                LandingRaise("IndexError")
           ELSE LET b == dropna(loc_slice(column(csv, "NIFTY_100pct"),
                                          w[1].t, w[Len(w)].t))
                IN  IF w[Len(w)].t - w[1].t = 0
                    THEN \* 1 / years with years = 0.0
                         LandingRaise("ZeroDivisionError")
                    ELSE IF Len(b) = 0
                    THEN \* nifty.iloc[-1] of an empty series
                         LandingRaise("IndexError")
                    ELSE landing' = [pc |-> "build",
                                     chartjs_src |-> landing.chartjs_src,
                                     adapter_src |-> landing.adapter_src,
                                     data |-> landing_data(w, b)]
    /\ UNCHANGED <<libs, calls, landing_file>>
    /\ UNCHANGED <<analytics, persistence>>

\* lines 127-139: build the page, inline the two sources, write landing.html
LandingWrite(now) ==
    /\ landing.pc = "build"
    /\ landing_file' = [exists |-> TRUE, data |-> landing.data, now |-> now,
                        chartjs_src |-> landing.chartjs_src,
                        adapter_src |-> landing.adapter_src]
    /\ landing' = [pc |-> "done"]
    /\ UNCHANGED <<libs, calls>>
    /\ UNCHANGED <<analytics, persistence>>

----------------------------------------------------------------------------
(* generate() and then generate_landing() on the same input file *)

\* python generate_landing.py, started once generate() has ended
LandingStart ==
    /\ pc \in {"done", "raised"}
    /\ landing.pc = "idle"
    /\ landing' = [pc |-> "start"]
    /\ UNCHANGED <<libs, calls, landing_file>>
    /\ UNCHANGED <<analytics, persistence>>

\* any input file; the two assets are in the cache already
InitBoth ==
    /\ csv \in CsvFiles
    /\ pc = "read"
    /\ exc = ""
    /\ wf = <<>>
    /\ nifty = <<>>
    /\ core = Unset
    /\ monthly = Unset
    /\ hero = Unset
    /\ series = Unset
    /\ site_file = [exists |-> FALSE]
    /\ InitPersistence
    /\ libs = <<"v1", "v1">>
    /\ calls = <<>>
    /\ landing = [pc |-> "idle"]
    /\ landing_file = [exists |-> FALSE]

NextBoth ==
    \/ Next
    \/ LandingStart
    \/ \E net \in Network : LandingFetch(net)
    \/ LandingAnalytics
    \/ \E now \in Clock : LandingWrite(now)

SpecBoth == InitBoth /\ [][NextBoth]_vars

----------------------------------------------------------------------------
(* The generators run again and again on one input file *)

\* input files without a missing value: a strategy of positive values and a
\* constant benchmark
RunFiles ==
    { f \in CsvFiles :
        \A i \in 1..Len(Calendar) :
            /\ f.WalkForward[i] \in StrategyValues \ {Zero}
            /\ f.NIFTY_100pct[i] = Int2Num(1) }

\* python generate_site_data.py once more: a new process, the files stay
Rerun ==
    /\ pc \in {"done", "raised"}
    /\ landing.pc = "idle"
    /\ pc' = "read"
    /\ exc' = ""
    /\ wf' = <<>>
    /\ nifty' = <<>>
    /\ core' = Unset
    /\ monthly' = Unset
    /\ hero' = Unset
    /\ series' = Unset
    /\ UNCHANGED <<csv, site_file>>
    /\ UNCHANGED <<persistence, rendering>>

\* python generate_landing.py once more: a new process, the files stay
LandingRerun ==
    /\ landing.pc \in {"done", "raised"}
    /\ Len(calls) < MaxCalls
    /\ landing' = [pc |-> "start"]
    /\ UNCHANGED <<libs, calls, landing_file>>
    /\ UNCHANGED <<analytics, persistence>>

InitRuns ==
    /\ csv \in RunFiles
    /\ pc = "read"
    /\ exc = ""
    /\ wf = <<>>
    /\ nifty = <<>>
    /\ core = Unset
    /\ monthly = Unset
    /\ hero = Unset
    /\ series = Unset
    /\ site_file = [exists |-> FALSE]
    /\ InitPersistence
    /\ InitRendering

NextRuns ==
    \/ Next
    \/ Rerun
    \/ LandingStart
    \/ \E net \in Network : LandingFetch(net)
    \/ LandingAnalytics
    \/ \E now \in Clock : LandingWrite(now)
    \/ LandingRerun

SpecRuns == InitRuns /\ [][NextRuns]_vars

----------------------------------------------------------------------------
(* Properties *)

\* the series values are integers here, so v.n is the value
AllPositive(s) == \A i \in 1..Len(s) : s[i].v.n > 0

\* the index of the last observation of s in the calendar week of its first
FirstWeekLastIndex(s) ==
    CHOOSE i \in 1..Len(s) :
        /\ s[i].t <= s[1].t + (6 - Weekday(s[1].t))
        /\ \A j \in 1..Len(s) : s[j].t <= s[1].t + (6 - Weekday(s[1].t)) => j <= i

Hundred == Int2Num(100)

\* C1: for a strategy series of strictly positive values every drawdown is
\* <= 0, and it is exactly 0 wherever the value is a new running maximum
\* (at least every earlier value), the first index included.  Stated of the
\* state CoreMetrics leaves (no later step changes core) and, for what is
\* emitted of the drawdowns, of the state BuildSeries leaves.
C1_DrawdownNonPositive ==
    /\ (pc = "monthly" /\ AllPositive(wf)) =>
          \A i \in 1..Len(wf) :
              /\ IsFinite(core.dd[i].v)
              /\ core.dd[i].v.n <= 0
              /\ (\A j \in 1..(i - 1) : wf[j].v.n <= wf[i].v.n) => core.dd[i].v = Zero
    /\ (pc = "write" /\ AllPositive(wf)) =>
          /\ \A k \in 1..Len(series.drawdown.values) :
                /\ IsFinite(series.drawdown.values[k])
                /\ series.drawdown.values[k].n <= 0
          /\ IsFinite(series.benchmark.max_dd) /\ series.benchmark.max_dd.n <= 0

\* C1 witness: a positive series that falls below its peak and later sets a
\* new running maximum
C1_Witness ==
    /\ core.set /\ AllPositive(wf)
    /\ \E i, k \in 1..Len(wf) :
          /\ i < k
          /\ core.dd[i].v.n < 0
          /\ \A j \in 1..(k - 1) : wf[j].v.n <= wf[k].v.n
          /\ core.dd[k].v = Zero

FirstPointIsFirstWeekRatio(curve, s) ==
    s[1].v.n > 0 =>
        /\ Len(curve.values) > 0
        /\ curve.values[1] =
              Round(Num(100 * s[FirstWeekLastIndex(s)].v.n, s[1].v.n), 10)
        /\ FirstWeekLastIndex(s) = 1 => curve.values[1] = Hundred

OwnDays(s) == s[Len(s)].t - s[1].t

\* C3: alpha is the strategy's annualized return minus the benchmark's, each
\* annualized over the series' own elapsed time (checked on series of
\* strictly positive values).
C3_AlphaOwnPeriods ==
    (core.set /\ AllPositive(wf)) =>
        /\ same_annualized(core.alpha.cagr,
                           annualized(NumDiv(wf[Len(wf)].v, wf[1].v), OwnDays(wf)))
        /\ same_annualized(core.alpha.nifty_cagr,
                           annualized(NumDiv(nifty[Len(nifty)].v, nifty[1].v),
                                      OwnDays(nifty)))

\* the period cannot be annualized: no elapsed time, or a first value <= 0
DegeneratePeriod == Len(wf) > 0 /\ (OwnDays(wf) = 0 \/ wf[1].v.n <= 0)

\* C4: a period that cannot be annualized is signalled as a DomainError, no
\* generic arithmetic exception is raised, and no NaN or Infinity reaches the
\* emitted cagr, alpha or calmar.
C4_DomainErrorSignalled ==
    /\ exc # "ZeroDivisionError"
    /\ (pc \notin {"read", "core"} /\ DegeneratePeriod) =>
          (pc = "raised" /\ exc = "DomainError")
    /\ hero.set =>
          /\ cagr_class(hero.cagr) = "finite"
          /\ alpha_class(hero.alpha) = "finite"
          /\ calmar_class(hero.calmar) = "finite"

\* the degenerate inputs: no strategy observation, a single one, a period of
\* no length, or no benchmark observation within the strategy's dates
DegenerateInput ==
    LET w == dropna(column(csv, "WalkForward"))
    IN  \/ Len(w) <= 1
        \/ w[Len(w)].t = w[1].t
        \/ Len(dropna(loc_slice(column(csv, "NIFTY_100pct"), w[1].t, w[Len(w)].t))) = 0

\* C5: on a degenerate input the run is never aborted by an exception.
C5_DegenerateInputNeverAborts ==
    DegenerateInput => pc # "raised"

\* the strategy column holds a value <= 0
NonPositiveInput ==
    \E i \in 1..Len(Calendar) :
        ~IsNaN(csv.WalkForward[i]) /\ csv.WalkForward[i].n <= 0

\* C6: an input with a non-positive equity value is rejected before anything
\* is computed: no metric and no series is derived from it and no output file
\* is written.
C6_InvalidInputRejected ==
    NonPositiveInput =>
        /\ ~core.set /\ ~monthly.set /\ ~hero.set /\ ~series.set
        /\ ~site_file.exists

\* the monthly returns of the two series on their common months
CommonStrategy == loc_labels(monthly.monthly_wf, monthly.common_m)
CommonBenchmark == loc_labels(monthly.monthly_nifty, monthly.common_m)

RECURSIVE SumProducts(_, _, _)
SumProducts(x, y, i) ==
    IF i > Len(x) THEN Zero
    ELSE NumAdd(NumMul(x[i].v, y[i].v), SumProducts(x, y, i + 1))

\* n * sum(x*y) - sum(x) * sum(y): n^2 times the population covariance
ScaledCov(x, y) ==
    NumSub(NumMul(Int2Num(Len(x)), SumProducts(x, y, 1)),
           NumMul(sum_from(x, 1), sum_from(y, 1)))

AllFinite(x) == \A i \in 1..Len(x) : IsFinite(x[i].v)

\* var(benchmark) > 0 on the common months
BenchmarkVaries == Len(CommonBenchmark) >= 2 /\ ScaledCov(CommonBenchmark, CommonBenchmark).n > 0

SameReturns(x, y) == Len(x) = Len(y) /\ \A i \in 1..Len(x) : x[i].v = y[i].v

\* C7 as stated: beta is cov/var(benchmark) over the common months, it is 1
\* whenever the two monthly-return sequences are identical, and 0 whenever
\* var(benchmark) is 0 or there are fewer than two common months (checked on
\* series of strictly positive values).
C7_BetaIdenticalIsOne ==
    (monthly.set /\ AllPositive(wf)) =>
        /\ BenchmarkVaries =>
              monthly.beta = NumDiv(ScaledCov(CommonStrategy, CommonBenchmark),
                                    ScaledCov(CommonBenchmark, CommonBenchmark))
        /\ (Len(CommonStrategy) >= 1 /\ SameReturns(CommonStrategy, CommonBenchmark)) =>
              monthly.beta = Int2Num(1)
        /\ ~BenchmarkVaries => monthly.beta = Zero

\* C7 amended: beta is cov/var(benchmark) over the common months; it is 1 when
\* the two monthly-return sequences are identical and var(benchmark) > 0, and
\* 0 whenever var(benchmark) is 0 or there are fewer than two common months.
\* (A covariance with an infinite strategy return is NaN in float64.)  Stated of the state BetaWinRate leaves; no later step changes monthly.
C7_BetaGuarded ==
    pc = "hero" =>
        /\ (BenchmarkVaries /\ AllFinite(CommonStrategy)) =>
              monthly.beta = NumDiv(ScaledCov(CommonStrategy, CommonBenchmark),
                                    ScaledCov(CommonBenchmark, CommonBenchmark))
        /\ (BenchmarkVaries /\ ~AllFinite(CommonStrategy)) => IsNaN(monthly.beta)
        /\ (SameReturns(CommonStrategy, CommonBenchmark) /\ BenchmarkVaries) =>
              monthly.beta = Int2Num(1)
        /\ ~BenchmarkVaries => monthly.beta = Zero

\* C7 witness: two common months on which the benchmark varies and the
\* strategy does not follow it, with a beta that is neither 0 nor 1
C7_Witness ==
    /\ monthly.set /\ AllPositive(wf)
    /\ BenchmarkVaries
    /\ ~SameReturns(CommonStrategy, CommonBenchmark)
    /\ monthly.beta \notin {Zero, Int2Num(1)}

\* C8: Sharpe is 0 when the standard deviation of the returns is 0 or
\* undefined, Calmar is 0 when the maximum drawdown is 0 and cagr/abs(max_dd)
\* otherwise, and neither is NaN or Infinity.
C8_RatiosAlwaysFinite ==
    core.set =>
        /\ ~NumGt(series_var(dropna(pct_change(wf))), Zero) => core.sharpe.k = "zero"
        /\ core.sharpe.k = "ratio" => IsFinite(core.sharpe.mean) /\ IsFinite(core.sharpe.var)
        /\ core.max_dd = Zero => core.calmar.k = "zero"
        /\ core.max_dd # Zero =>
              /\ core.calmar.k = "ratio"
              /\ core.calmar.cagr = core.cagr
              /\ core.calmar.max_dd = NumAbs(core.max_dd)
        /\ calmar_class(core.calmar) = "finite"

\* the months the benchmark has a monthly return for, from its dates alone:
\* every month end after its first month, up to its last
BenchmarkMonths ==
    IF Len(nifty) = 0 THEN {}
    ELSE LET labs == bin_labels("ME", NextLabel("ME", BinLabel("ME", nifty[1].t)),
                                BinLabel("ME", nifty[Len(nifty)].t))
         IN  {labs[k] : k \in 1..Len(labs)}

\* the benchmark of this run with its values replaced by the date's day of the
\* month: another benchmark on the same dates, with other values and returns
OtherBenchmark ==
    [i \in 1..Len(nifty) |-> Point(nifty[i].t, Int2Num(CivilFromDays(nifty[i].t).d))]

\* C10: win_rate is the share (in percent, rounded) of the common months in
\* which the strategy's monthly return is strictly above 0, and it is the
\* win_rate of the run with one fixed other benchmark on the same dates, so
\* any two runs whose benchmarks have the same dates compute the same win_rate.
\* Stated of the state BetaWinRate leaves; no later step changes monthly.
C10_WinRate ==
    pc = "hero" =>
        LET common == index_of(monthly.monthly_wf) \cap BenchmarkMonths
            wins   == {i \in 1..Len(monthly.monthly_wf) :
                          /\ monthly.monthly_wf[i].t \in common
                          /\ NumGt(monthly.monthly_wf[i].v, Zero)}
        IN  /\ monthly.win_rate =
                  Round(Num(100 * Cardinality(wins), Cardinality(common)), 1)
            /\ monthly_metrics(wf, OtherBenchmark).win_rate = monthly.win_rate

\* C10 witness: two common months, the strategy flat in one and up in the
\* other, while the benchmark moves in both: win_rate is 50
C10_Witness ==
    /\ monthly.set /\ AllPositive(wf)
    /\ Cardinality(monthly.common_m) = 2
    /\ \E i \in 1..Len(CommonStrategy) : CommonStrategy[i].v = Zero
    /\ \A i \in 1..Len(CommonBenchmark) : CommonBenchmark[i].v # Zero
    /\ monthly.win_rate = Int2Num(50)

\* the calendar year of a point, and the last value a series has in a year
YearOf(p) == CivilFromDays(p.t).y

YearLast(s, y) ==
    LET i == CHOOSE k \in 1..Len(s) :
                 /\ YearOf(s[k]) = y
                 /\ \A j \in 1..Len(s) : YearOf(s[j]) = y => j <= k
    IN  s[i].v.n

YearsOf(s) == {YearOf(s[i]) : i \in 1..Len(s)}

\* C9: annual_returns holds exactly the years after the first, each with the
\* percent change (one decimal) from the previous year's last value to the
\* year's last value; for year-end values 100, 120, 90 it is
\* {2020: 20.0, 2021: -25.0}.
C9_AnnualReturns ==
    pc = "annual_done" =>
        LET r == series.wf_annual
        IN  /\ {r[i].year : i \in 1..Len(r)} =
                  {y \in YearsOf(wf) : y # YearOf(wf[1])}
            /\ \A i \in 1..Len(r) :
                  /\ r[i].year - 1 \in YearsOf(wf)
                  /\ r[i].pct =
                        Round(Num(100 * (YearLast(wf, r[i].year) - YearLast(wf, r[i].year - 1)),
                                  YearLast(wf, r[i].year - 1)), 10)
            /\ \A i, j \in 1..Len(r) : i < j => r[i].year < r[j].year
            /\ (/\ YearsOf(wf) = {2019, 2020, 2021}
                /\ YearLast(wf, 2019) = 100
                /\ YearLast(wf, 2020) = 120
                /\ YearLast(wf, 2021) = 90) =>
                  r = << [year |-> 2020, pct |-> Int2Num(20)],
                         [year |-> 2021, pct |-> Int2Num(-25)] >>

\* C9 witness: year-end values 100, 120, 90 with other values earlier in the
\* year, and the two returns 20.0 and -25.0
C9_Witness ==
    /\ pc = "annual_done"
    /\ Len(wf) = 5
    /\ YearLast(wf, 2019) = 100 /\ YearLast(wf, 2020) = 120 /\ YearLast(wf, 2021) = 90
    /\ wf[1].v.n # 100 /\ wf[4].v.n # 90
    /\ series.wf_annual = << [year |-> 2020, pct |-> Int2Num(20)],
                             [year |-> 2021, pct |-> Int2Num(-25)] >>

----------------------------------------------------------------------------
(* C11 *)

\* the strategy's value doubles over one calendar year
DoublesInOneYear ==
    /\ core.set
    /\ core.days \in {365, 366}
    /\ core.multiple = Int2Num(2)

\* C11 as stated: over one calendar year (365 or 366 days) in which the value
\* doubles, the CAGR is exactly 1.0, the total return.
C11_OneYearDoubleIsOne ==
    DoublesInOneYear => power_vs_base(core.cagr) = 0

\* C11: over one calendar year in which the value doubles, the CAGR is
\* 2 ** (365.25 / days) - 1 with days the elapsed days: the exponent is
\* 1461/1460 over 365 days, so the CAGR is above 1.0, and 1461/1464 over 366
\* days, so the CAGR is below 1.0; it is never exactly 1.0.
C11_OneYearDoubleIsNearOne ==
    DoublesInOneYear =>
        /\ core.cagr.base = Int2Num(2)
        /\ core.cagr.exp = Num(1461, 4 * core.days)
        /\ core.days = 365 => power_vs_base(core.cagr) = 1
        /\ core.days = 366 => power_vs_base(core.cagr) = -1

C11_Witness ==
    /\ pc = "monthly"
    /\ DoublesInOneYear
    /\ core.days = 365
    /\ Len(wf) = 2

----------------------------------------------------------------------------
(* C12 *)

\* the benchmark series holds observations of the strategy's period only
BenchmarkWithinStrategy ==
    \A j \in 1..Len(nifty) :
        /\ ~IsNaN(nifty[j].v)
        /\ wf[1].t <= nifty[j].t
        /\ nifty[j].t <= wf[Len(wf)].t

\* the benchmark has an observation in the month of date z
BenchmarkObservedInMonth(z) ==
    \E j \in 1..Len(nifty) : strftime_ym(nifty[j].t) = strftime_ym(z)

\* C12: the benchmark observations that enter the metrics lie within the
\* strategy's first and last timestamp, and every benchmark monthly return
\* that enters beta belongs to a month the benchmark has an observation in:
\* no benchmark value is made up for a month without one.
C12_BenchmarkObservedOnly ==
    (pc = "hero" /\ monthly.set) =>
        /\ BenchmarkWithinStrategy
        /\ \A i \in 1..Len(monthly.monthly_nifty) :
              monthly.monthly_nifty[i].t \in monthly.common_m =>
                  BenchmarkObservedInMonth(monthly.monthly_nifty[i].t)

\* the truncation alone, in generate() from the input file on
C12_Truncated ==
    pc \notin {"read", "raised"} => BenchmarkWithinStrategy

----------------------------------------------------------------------------
(* C13 *)

\* the rows of a table are told apart by the given columns
KeyedBy(rows, key(_)) == Cardinality({key(r) : r \in rows}) = Cardinality(rows)

UserDateOf(r) == <<r.user_id, r.date>>
EmailOf(r) == r.email
ReferralCodeOf(r) == r.referral_code

\* the table the last statement went to, before (unprimed) or after (primed)
\* the statement
LastOnUsers == db_last.op \in {"insert_user", "update_user"}

\* the rows the last statement would have left in its table had it been
\* accepted
Attempted(rows) == {r \in rows : r.id # db_last.row.id} \cup {db_last.row}

\* the last statement would have left two rows sharing a key
WouldViolate ==
    IF LastOnUsers
    THEN \/ ~KeyedBy(Attempted(users), EmailOf)
         \/ ~KeyedBy({r \in Attempted(users) : r.referral_code # NULL}, ReferralCodeOf)
    ELSE ~KeyedBy(Attempted(capital_records), UserDateOf)

\* C13: no two CapitalRecord rows share (user_id, date), no two User rows
\* share an email or a non-null referral_code, after any inserts and updates;
\* a statement that would make two rows share one of these is rejected with
\* the rows left as they were.
C13_UniqueRows ==
    /\ [](/\ KeyedBy(capital_records, UserDateOf)
          /\ KeyedBy(users, EmailOf)
          /\ KeyedBy({r \in users : r.referral_code # NULL}, ReferralCodeOf))
    /\ [][(db_last'.op # "none" /\ db_last'.exc = "IntegrityError")
            => UNCHANGED <<users, capital_records>>]_vars
    /\ []((db_last.op # "none" /\ db_last.exc = "") => ~WouldViolate)

C13_Witness ==
    /\ Cardinality(users) = 2
    /\ Cardinality(capital_records) = 2
    /\ \E r \in users : r.referral_code = NULL
    /\ db_last.op = "update_capital_record"
    /\ db_last.exc = "IntegrityError"

----------------------------------------------------------------------------
(* C14 *)

\* the code is 'EFP-' followed by exactly length characters of A-Z and 0-9
WellFormedCode(c) ==
    /\ Len(c.code) = 4 + c.length
    /\ SubSeq(c.code, 1, 4) = <<"E", "F", "P", "-">>
    /\ \A i \in 5..Len(c.code) : \E k \in 1..Len(chars) : c.code[i] = chars[k]

\* C14: no call of generate_referral_code returns a code that an earlier
\* call returned or that a stored user holds, and every code returned is
\* 'EFP-' followed by exactly length characters of A-Z and 0-9.
C14_UniqueReferralCode ==
    [][issued' # issued =>
        LET new == issued'[Len(issued')]
        IN  /\ WellFormedCode(new)
            /\ \A i \in 1..Len(issued) : issued[i].code # new.code
            /\ \A r \in users : r.referral_code # new.code]_vars

\* the format alone
C14_WellFormed == \A i \in 1..Len(issued) : WellFormedCode(issued[i])

----------------------------------------------------------------------------
(* C16 *)

\* an asset is downloaded only when its cache file does not exist
FetchOnlyWhenAbsent ==
    [][calls' # calls =>
        \A i \in calls'[Len(calls')].downloads : libs[i] = "absent"]_vars

\* an existing cache file is never overwritten
NeverOverwritten ==
    [][\A i \in 1..Len(CHARTJS_URLS) : libs[i] # "absent" => libs'[i] = libs[i]]_vars

\* after a call that completes, every later call downloads nothing and
\* returns the same two sources
SameAfterSuccess ==
    \A j, k \in 1..Len(calls) :
        (j < k /\ calls[j].exc = "") =>
            /\ calls[k].downloads = {}
            /\ calls[k].exc = ""
            /\ calls[k].sources = calls[j].sources

\* when the download of the second asset fails the call fails, the first
\* asset stays cached, and the next call downloads the second asset only
RetryFetchesMissing ==
    \A j \in 1..Len(calls) :
        (calls[j].exc # "" /\ 2 \in calls[j].downloads) =>
            /\ calls[j].libs[1] # "absent"
            /\ j < Len(calls) => calls[j + 1].downloads = {2}

\* C16: get_chartjs_inline downloads an asset only when its cache file does
\* not exist and never overwrites an existing cache file; after one call
\* that completes, every later call downloads nothing and returns the same
\* two sources; if the download of the second asset fails, the call fails,
\* the first asset stays cached and a retry downloads only the missing
\* asset.
C16_CacheBehaviour ==
    /\ FetchOnlyWhenAbsent
    /\ NeverOverwritten
    /\ []SameAfterSuccess
    /\ []RetryFetchesMissing

----------------------------------------------------------------------------
(* C17 *)

\* both generators have ended on a file whose strategy values are all
\* positive, and the landing generator got its assets
BothEnded ==
    /\ pc \in {"done", "raised"}
    /\ Len(wf) > 0
    /\ AllPositive(wf)
    /\ landing.pc \in {"done", "raised"}
    /\ landing.pc = "raised" => landing.exc # "URLError"

\* the analytics both outputs show
SharedOfSite ==
    [cagr |-> site_file.hero.cagr, max_dd |-> site_file.hero.max_dd,
     sharpe |-> site_file.hero.sharpe, calmar |-> site_file.hero.calmar,
     alpha |-> site_file.hero.alpha, beta |-> site_file.hero.beta,
     multiple |-> site_file.hero.multiple, years |-> site_file.hero.years,
     win_rate |-> Int2Num(site_file.hero.win_rate),
     curve |-> site_file.series.equity_curve,
     annual |-> site_file.series.annual_returns]

SharedOfLanding ==
    [cagr |-> landing_file.data.hero.cagr, max_dd |-> landing_file.data.hero.max_dd,
     sharpe |-> landing_file.data.hero.sharpe, calmar |-> landing_file.data.hero.calmar,
     alpha |-> landing_file.data.hero.alpha, beta |-> landing_file.data.hero.beta,
     multiple |-> landing_file.data.hero.multiple, years |-> landing_file.data.hero.years,
     win_rate |-> landing_file.data.win_rate,
     curve |-> landing_file.data.chart_data,
     annual |-> landing_file.data.annual_data]

\* C17: on every input file of positive values generate() and
\* generate_landing() produce the
\* same cagr, max_dd, sharpe, calmar, alpha, beta, multiple, years and
\* win_rate, the same weekly normalized equity curves and the same annual
\* returns: one writes its output exactly when the other does, and the
\* values written agree.
C17_SameAnalytics ==
    BothEnded =>
        /\ site_file.exists <=> landing_file.exists
        /\ (site_file.exists /\ landing_file.exists) => SharedOfSite = SharedOfLanding

\* the values agree whenever both outputs are written
C17_SameWhenBothWritten ==
    (site_file.exists /\ landing_file.exists) => SharedOfSite = SharedOfLanding

----------------------------------------------------------------------------
(* C15 *)

\* a run of generate() that finds the output of an earlier run on the same
\* input writes the same record
SameSiteRecord ==
    [][(pc = "write" /\ pc' = "done" /\ site_file.exists) => site_file' = site_file]_vars

\* a run of generate_landing() that finds the page of an earlier run on the
\* same input writes the same page
SameLandingPage ==
    [][(landing.pc = "build" /\ landing'.pc = "done" /\ landing_file.exists)
            => landing_file' = landing_file]_vars

\* what a run left in LIBS_DIR does not change what a later run does: of two
\* runs that got their assets, the later downloads what the earlier did
SameDownloads ==
    \A j, k \in 1..Len(calls) :
        (j < k /\ calls[j].exc = "" /\ calls[k].exc = "") =>
            calls[k].downloads = calls[j].downloads

\* the analytics a run of generate() writes are those the earlier run wrote
SameSiteAnalytics ==
    [][(pc = "write" /\ pc' = "done" /\ site_file.exists) =>
            /\ site_file'.hero = site_file.hero
            /\ site_file'.series = site_file.series]_vars

\* C15: the output is a function of the input series alone: two runs of a
\* generator on the same input write identical output records, whatever the
\* earlier run left on disk.
C15_RunsIndependent ==
    /\ SameSiteRecord
    /\ SameLandingPage

=============================================================================
